---- MODULE Spec2Model ----
(***************************************************************************)
(* The worker-thread cache of trio (src/trio/_core/_thread_cache.py).      *)
(*                                                                         *)
(* One process-wide ThreadCache holds the dict _idle_workers.  A call to   *)
(* start_thread_soon(fn, deliver) pops the most recently inserted idle     *)
(* worker or spawns a new WorkerThread, writes the job into its _job slot  *)
(* and releases its _worker_lock.  A WorkerThread loops in _work: it       *)
(* acquires its lock with a timeout, and either handles the job            *)
(* (_handle_job) or, on a timeout, tries to delete itself from the dict    *)
(* and exits.  Every step below is one GIL-atomic operation of the code.   *)
(*                                                                         *)
(* The module also holds the Sequencer of trio.testing                     *)
(* (src/trio/testing/_sequencer.py), an independent object with its own    *)
(* variables and its own specification SeqSpec: tasks enter the blocks     *)
(* "async with seq(position)" of one Sequencer.  Every step of a task is   *)
(* the code it runs between two checkpoints.                               *)
(***************************************************************************)
EXTENDS Integers, Sequences, FiniteSets, TLC

\* Number of start_thread_soon calls explored (jobs are numbered 1..MaxJobs).
MaxJobs == 3
\* Number of start_thread_soon calls explored under the fair specification.
MaxLiveJobs == 2
\* Number of jobs that may be unfinished at the same time.
MaxInFlight == 2
\* Number of tasks that enter a block of the Sequencer.
MaxTasks == 4
\* The largest position passed to the Sequencer.
MaxPosition == 3

Jobs == 1..MaxJobs
\* Every call spawns at most one worker, so MaxJobs worker identities suffice.
Workers == 1..MaxJobs
None == 0
\* The thread of a caller that is not a worker thread.
External == 0

VARIABLES
  idle_workers,  \* ThreadCache._idle_workers: the keys in insertion order
  wpc,           \* per worker: position of its thread in _work/_handle_job
  job,           \* per worker: WorkerThread._job (None or a job)
  worker_lock,   \* per worker: TRUE iff WorkerThread._worker_lock is locked
  fn_deliver,    \* per worker: the locals fn, deliver of _handle_job
  result,        \* per worker: the local result of _handle_job
  cpc,           \* per job: position of its start_thread_soon call
  worker,        \* per job: the local worker of its start_thread_soon call
  caller,        \* per job: the thread that runs its start_thread_soon call
  fn_exit,       \* per worker: how the fn it called last ended, until
                 \* _handle_job returns ("none", "returned", "raised")
  delivering,    \* per worker: the deliver it is inside (the job whose deliver
                 \* it is and the argument it got), NoCall outside a deliver
  started,       \* history: per job, how many times its fn was called
  ended,         \* history: per job, how many times its fn ended
  delivered,     \* history: per job, how many times its deliver was called
  ranBy,         \* per job: the worker thread that called its fn, until the
                 \* _handle_job that called it returns
  stamp,         \* per worker in _idle_workers: the time of its insertion
  tick,          \* history: number of insertions into _idle_workers so far
  removals,      \* history: per worker, removals since its last insertion
  sequential     \* history: so far every call was made after the deliver of
                 \* the job before it was called, and no acquire timed out

\* The Sequencer and the tasks that use it.
VARIABLES
  sequence_points,  \* Sequencer._sequence_points: per position, no key
                    \* ("absent") or the Event of the key ("unset", "set")
  claimed,          \* Sequencer._claimed
  broken,           \* Sequencer._broken
  spc,              \* per task: where it is in its async with seq(position)
  position          \* per task: the argument position of its __call__

svars == <<sequence_points, claimed, broken, spc, position>>

vars == <<idle_workers, wpc, job, worker_lock, fn_deliver, result, cpc, worker,
          caller, fn_exit, delivering, started, ended, delivered, ranBy, stamp,
          tick, removals, sequential, svars>>

wvars == <<wpc, job, worker_lock, fn_deliver, result>>
cvars == <<cpc, worker, caller>>
hvars == <<fn_exit, delivering, started, ended, delivered, ranBy, stamp, tick,
           removals, sequential>>

----------------------------------------------------------------------------
\* dict -----------------------------------------------------------------------

InDict(d, k) == \E i \in 1..Len(d) : d[i] = k

\* A __setitem__ whose insertion is lost.
SetItemLost(d, k) == d

\* d[k] = None: a new key goes last, a key already present keeps its place.
SetItem(d, k) == IF InDict(d, k) THEN d ELSE Append(d, k)

\* del d[k] for a key that is present.
DelItem(d, k) == SelectSeq(d, LAMBDA x : x # k)

\* A popitem of a dict that gives its oldest key (a FIFO queue).
popitem_fifo(d) == [key |-> d[1], rest |-> SubSeq(d, 2, Len(d))]

\* A popitem that is not atomic with the removal: it returns the last key and
\* leaves it in the dict.
popitem_peek(d) == [key |-> d[Len(d)], rest |-> d]

\* d.popitem() for a d that is not empty: the key it returns, which is the most
\* recently inserted one, and the dict it leaves.
popitem(d) == [key |-> d[Len(d)], rest |-> SubSeq(d, 1, Len(d) - 1)]

\* outcome.capture(fn): Value(v) if fn returned v, Error(e) if it raised e.
\* The value or the exception of job j is identified by j.
Value(j) == <<"Value", j>>
Error(j) == <<"Error", j>>
\* No outcome yet (an unset local result).
NoOutcome == <<"None", None>>
\* Not inside a deliver.
NoCall == [deliver |-> None, arg |-> NoOutcome]

\* The number of workers spawned so far.
Spawned == Cardinality({w \in Workers : wpc[w] # "unborn"})
\* The number of start_thread_soon calls made so far.
Submitted == Cardinality({j \in Jobs : cpc[j] # "new"})

\* The calls of worker thread w (made from inside a deliver) still running.
ActiveCalls(w) ==
  {j \in Jobs : caller[j] = w /\ cpc[j] \in {"spawn", "set_job", "release"}}

\* The jobs whose call was made and did not raise, and whose _handle_job has
\* not returned yet.
InFlight ==
  {j \in Jobs : /\ cpc[j] \in {"spawn", "set_job", "release", "returned"}
                /\ \/ delivered[j] = 0
                   \/ \E w \in Workers : fn_deliver[w] = j}

----------------------------------------------------------------------------
Tasks == 1..MaxTasks
Positions == 0..MaxPosition
\* The keys _sequence_points can get: a block at position p sets p + 1.
Points == 0..(MaxPosition + 1)

\* Lines 55-59: a new Sequencer, and tasks that have not entered a block.
SeqInit ==
  /\ sequence_points = [p \in Points |-> "absent"]
  /\ claimed = {}
  /\ broken = FALSE
  /\ spc = [t \in Tasks |-> "new"]
  /\ position = [t \in Tasks |-> None]

Init ==
  /\ idle_workers = <<>>
  /\ wpc = [w \in Workers |-> "unborn"]
  /\ job = [w \in Workers |-> None]
  /\ worker_lock = [w \in Workers |-> FALSE]
  /\ fn_deliver = [w \in Workers |-> None]
  /\ result = [w \in Workers |-> NoOutcome]
  /\ cpc = [j \in Jobs |-> "new"]
  /\ worker = [j \in Jobs |-> None]
  /\ caller = [j \in Jobs |-> External]
  /\ fn_exit = [w \in Workers |-> "none"]
  /\ delivering = [w \in Workers |-> NoCall]
  /\ started = [j \in Jobs |-> 0]
  /\ ended = [j \in Jobs |-> 0]
  /\ delivered = [j \in Jobs |-> 0]
  /\ ranBy = [j \in Jobs |-> None]
  /\ stamp = [w \in Workers |-> 0]
  /\ tick = 0
  /\ removals = [w \in Workers |-> 0]
  /\ sequential = TRUE
  /\ SeqInit

----------------------------------------------------------------------------
\* WorkerThread._work and WorkerThread._handle_job, one worker thread w ---------

\* A wait that succeeds without taking the lock: the lock stays unlocked.
AcquireLeavesUnlocked(w) ==
  /\ wpc[w] = "acquire"
  /\ ~worker_lock[w]
  /\ wpc' = [wpc EXCEPT ![w] = "handle_job"]
  /\ UNCHANGED <<svars, idle_workers, job, worker_lock, fn_deliver, result, cvars, hvars>>

\* Line 80, the wait succeeds: the lock was unlocked and is now held.
Acquire(w) ==
  /\ wpc[w] = "acquire"
  /\ ~worker_lock[w]
  /\ worker_lock' = [worker_lock EXCEPT ![w] = TRUE]
  /\ wpc' = [wpc EXCEPT ![w] = "handle_job"]
  /\ UNCHANGED <<svars, idle_workers, job, fn_deliver, result, cvars, hvars>>

\* A _work that returns as soon as its wait times out, without the del.
TimeoutExits(w) ==
  /\ wpc[w] = "acquire"
  /\ worker_lock[w]
  /\ wpc' = [wpc EXCEPT ![w] = "exited"]
  /\ sequential' = FALSE
  /\ UNCHANGED <<svars, idle_workers, job, worker_lock, fn_deliver, result, cvars,
                 fn_exit, delivering, started, ended, delivered, ranBy, stamp,
                 tick, removals>>

\* Line 80, the wait times out: the lock stayed locked for IDLE_TIMEOUT.
Timeout(w) ==
  /\ wpc[w] = "acquire"
  /\ worker_lock[w]
  /\ wpc' = [wpc EXCEPT ![w] = "del"]
  /\ sequential' = FALSE
  /\ UNCHANGED <<svars, idle_workers, job, worker_lock, fn_deliver, result, cvars,
                 fn_exit, delivering, started, ended, delivered, ranBy, stamp,
                 tick, removals>>

\* A _work that returns after the timeout whether or not the del succeeded.
DelSelfExits(w) ==
  /\ wpc[w] = "del"
  /\ idle_workers' = DelItem(idle_workers, w)
  /\ removals' = [removals EXCEPT ![w] = IF InDict(idle_workers, w) THEN @ + 1 ELSE @]
  /\ stamp' = [stamp EXCEPT ![w] = 0]
  /\ wpc' = [wpc EXCEPT ![w] = "exited"]
  /\ UNCHANGED <<svars, job, worker_lock, fn_deliver, result, cvars, fn_exit,
                 delivering, started, ended, delivered, ranBy, tick,
                 sequential>>

\* A _work that loops around after every timeout and never deletes itself.
DelSelfStays(w) ==
  /\ wpc[w] = "del"
  /\ wpc' = [wpc EXCEPT ![w] = "acquire"]
  /\ UNCHANGED <<svars, idle_workers, job, worker_lock, fn_deliver, result, cvars,
                 hvars>>

\* Lines 87-98: del self._thread_cache._idle_workers[self]; KeyError loops
\* around, success returns from _work and the thread ends.
DelSelf(w) ==
  /\ wpc[w] = "del"
  /\ IF InDict(idle_workers, w)
       THEN /\ idle_workers' = DelItem(idle_workers, w)
            /\ removals' = [removals EXCEPT ![w] = @ + 1]
            /\ stamp' = [stamp EXCEPT ![w] = 0]
            /\ wpc' = [wpc EXCEPT ![w] = "exited"]
       ELSE /\ wpc' = [wpc EXCEPT ![w] = "acquire"]
            /\ UNCHANGED <<idle_workers, removals, stamp>>
  /\ UNCHANGED <<svars, job, worker_lock, fn_deliver, result, cvars, fn_exit,
                 delivering, started, ended, delivered, ranBy, tick,
                 sequential>>

\* Line 64: fn, deliver = self._job. Unpacking None raises TypeError, which
\* nothing catches: the thread dies.
ReadJob(w) ==
  /\ wpc[w] = "handle_job"
  /\ IF job[w] = None
       THEN /\ wpc' = [wpc EXCEPT ![w] = "crashed"]
            /\ UNCHANGED fn_deliver
       ELSE /\ wpc' = [wpc EXCEPT ![w] = "clear_job"]
            /\ fn_deliver' = [fn_deliver EXCEPT ![w] = job[w]]
  /\ UNCHANGED <<svars, idle_workers, job, worker_lock, result, cvars, hvars>>

\* A _handle_job without line 65: the slot keeps the job while fn runs.
CallFnKeepsJob(w) ==
  /\ wpc[w] = "clear_job"
  /\ wpc' = [wpc EXCEPT ![w] = "capture"]
  /\ started' = [started EXCEPT ![fn_deliver[w]] = @ + 1]
  /\ ranBy' = [ranBy EXCEPT ![fn_deliver[w]] = w]
  /\ UNCHANGED <<svars, idle_workers, job, worker_lock, fn_deliver, result, cvars,
                 fn_exit, delivering, ended, delivered, stamp, tick, removals,
                 sequential>>

\* Lines 65-66: self._job = None, then outcome.capture calls fn.
CallFn(w) ==
  /\ wpc[w] = "clear_job"
  /\ job' = [job EXCEPT ![w] = None]
  /\ wpc' = [wpc EXCEPT ![w] = "capture"]
  /\ started' = [started EXCEPT ![fn_deliver[w]] = @ + 1]
  /\ ranBy' = [ranBy EXCEPT ![fn_deliver[w]] = w]
  /\ UNCHANGED <<svars, idle_workers, worker_lock, fn_deliver, result, cvars, fn_exit,
                 delivering, ended, delivered, stamp, tick, removals, sequential>>

\* Line 66: fn ends (how: "returned" or "raised") and outcome.capture returns
\* its outcome out.
Capture(w, how, out) ==
  /\ wpc[w] = "capture"
  /\ result' = [result EXCEPT ![w] = out]
  /\ fn_exit' = [fn_exit EXCEPT ![w] = how]
  /\ ended' = [ended EXCEPT ![fn_deliver[w]] = @ + 1]
  /\ wpc' = [wpc EXCEPT ![w] = "register"]
  /\ UNCHANGED <<svars, idle_workers, job, worker_lock, fn_deliver, cvars, delivering,
                 started, delivered, ranBy, stamp, tick, removals, sequential>>

\* Line 66, fn returns.
FnReturns(w) == Capture(w, "returned", Value(fn_deliver[w]))

\* A capture that turns the exception of fn into a value.
FnRaisesAsValue(w) == Capture(w, "raised", Value(fn_deliver[w]))

\* Line 66, fn raises.
FnRaises(w) == Capture(w, "raised", Error(fn_deliver[w]))

\* A _handle_job that does not insert itself before it calls deliver.
RegisterSkipped(w) ==
  /\ wpc[w] = "register"
  /\ wpc' = [wpc EXCEPT ![w] = "call_deliver"]
  /\ removals' = [removals EXCEPT ![w] = IF InDict(idle_workers, w) THEN @ ELSE 0]
  /\ UNCHANGED <<svars, idle_workers, job, worker_lock, fn_deliver, result, cvars,
                 fn_exit, delivering, started, ended, delivered, ranBy, stamp,
                 tick, sequential>>

\* Line 71: self._thread_cache._idle_workers[self] = None.
Register(w) ==
  /\ wpc[w] = "register"
  /\ idle_workers' = SetItem(idle_workers, w)
  /\ wpc' = [wpc EXCEPT ![w] = "call_deliver"]
  /\ tick' = tick + 1
  /\ stamp' = [stamp EXCEPT ![w] = tick + 1]
  /\ removals' = [removals EXCEPT ![w] = IF InDict(idle_workers, w) THEN @ ELSE 0]
  /\ UNCHANGED <<svars, job, worker_lock, fn_deliver, result, cvars, fn_exit,
                 delivering, started, ended, delivered, ranBy, sequential>>

\* A _handle_job that takes deliver from self._job when it calls it, not from
\* its local: the slot may hold a later job by then.
DeliverCallFromSlot(w) ==
  [deliver |-> IF job[w] # None THEN job[w] ELSE fn_deliver[w], arg |-> result[w]]

\* Line 73: the callable and the argument of deliver(result): both are the
\* locals of _handle_job.
DeliverCall(w) == [deliver |-> fn_deliver[w], arg |-> result[w]]

\* Line 73: deliver(result) is called.
CallDeliver(w) ==
  /\ wpc[w] = "call_deliver"
  /\ wpc' = [wpc EXCEPT ![w] = "in_deliver"]
  /\ delivering' = [delivering EXCEPT ![w] = DeliverCall(w)]
  /\ delivered' = [delivered EXCEPT ![DeliverCall(w).deliver] = @ + 1]
  /\ UNCHANGED <<svars, idle_workers, job, worker_lock, fn_deliver, result, cvars,
                 fn_exit, started, ended, ranBy, stamp, tick, removals,
                 sequential>>

\* Lines 73 and 82: deliver returns, _handle_job returns (its locals are
\* dropped) and _work loops around.
DeliverReturns(w) ==
  /\ wpc[w] = "in_deliver"
  /\ ActiveCalls(w) = {}
  /\ wpc' = [wpc EXCEPT ![w] = "acquire"]
  /\ fn_deliver' = [fn_deliver EXCEPT ![w] = None]
  /\ result' = [result EXCEPT ![w] = NoOutcome]
  /\ fn_exit' = [fn_exit EXCEPT ![w] = "none"]
  /\ delivering' = [delivering EXCEPT ![w] = NoCall]
  /\ ranBy' = [j \in Jobs |-> IF ranBy[j] = w THEN None ELSE ranBy[j]]
  /\ UNCHANGED <<svars, idle_workers, job, worker_lock, cvars, started, ended,
                 delivered, stamp, tick, removals, sequential>>

\* A _handle_job without the try: the exception of deliver ends the thread.
DeliverRaisesKills(w) ==
  /\ wpc[w] = "in_deliver"
  /\ ActiveCalls(w) = {}
  /\ wpc' = [wpc EXCEPT ![w] = "crashed"]
  /\ UNCHANGED <<svars, idle_workers, job, worker_lock, fn_deliver, result, cvars,
                 hvars>>

\* Lines 73-74: deliver raises and the BaseException is caught.
DeliverRaises(w) ==
  /\ wpc[w] = "in_deliver"
  /\ ActiveCalls(w) = {}
  /\ wpc' = [wpc EXCEPT ![w] = "except"]
  /\ UNCHANGED <<svars, idle_workers, job, worker_lock, fn_deliver, result, cvars,
                 hvars>>

\* Lines 75-76 and 82: the exception is printed to stderr, _handle_job returns
\* (its locals are dropped) and _work loops around.
PrintException(w) ==
  /\ wpc[w] = "except"
  /\ wpc' = [wpc EXCEPT ![w] = "acquire"]
  /\ fn_deliver' = [fn_deliver EXCEPT ![w] = None]
  /\ result' = [result EXCEPT ![w] = NoOutcome]
  /\ fn_exit' = [fn_exit EXCEPT ![w] = "none"]
  /\ delivering' = [delivering EXCEPT ![w] = NoCall]
  /\ ranBy' = [j \in Jobs |-> IF ranBy[j] = w THEN None ELSE ranBy[j]]
  /\ UNCHANGED <<svars, idle_workers, job, worker_lock, cvars, started, ended,
                 delivered, stamp, tick, removals, sequential>>

----------------------------------------------------------------------------
\* ThreadCache.start_thread_soon, the call for job j ---------------------------

\* A start_thread_soon that never looks into the dict: every call spawns.
PopItemAlwaysSpawns(t, limit) ==
  /\ Submitted < limit
  /\ Cardinality(InFlight) < MaxInFlight
  /\ t # External => wpc[t] = "in_deliver" /\ ActiveCalls(t) = {}
  /\ LET j == Submitted + 1 IN
       /\ caller' = [caller EXCEPT ![j] = t]
       /\ sequential' = (sequential /\ \A i \in 1..(j - 1) : delivered[i] >= 1)
       /\ cpc' = [cpc EXCEPT ![j] = "spawn"]
  /\ UNCHANGED <<svars, idle_workers, worker, removals, stamp, wvars, fn_exit,
                 delivering, started, ended, delivered, ranBy, tick>>

\* Lines 177 and 105-108: thread t calls start_thread_soon for the next job:
\* worker, _ = self._idle_workers.popitem(), KeyError when the dict is empty.
\* t is External, or a worker thread that is inside a deliver and not inside
\* another call. At most limit calls are made, and a call is made only while
\* fewer than MaxInFlight jobs are unfinished.
PopItem(t, limit) ==
  /\ Submitted < limit
  /\ Cardinality(InFlight) < MaxInFlight
  /\ t # External => wpc[t] = "in_deliver" /\ ActiveCalls(t) = {}
  /\ LET j == Submitted + 1 IN
       /\ caller' = [caller EXCEPT ![j] = t]
       /\ sequential' = (sequential /\ \A i \in 1..(j - 1) : delivered[i] >= 1)
       /\ IF idle_workers # <<>>
            THEN /\ worker' = [worker EXCEPT ![j] = popitem(idle_workers).key]
                 /\ idle_workers' = popitem(idle_workers).rest
                 /\ removals' = [removals EXCEPT ![popitem(idle_workers).key] = @ + 1]
                 /\ stamp' = [stamp EXCEPT ![popitem(idle_workers).key] = 0]
                 /\ cpc' = [cpc EXCEPT ![j] = "set_job"]
            ELSE /\ cpc' = [cpc EXCEPT ![j] = "spawn"]
                 /\ UNCHANGED <<idle_workers, worker, removals, stamp>>
  /\ UNCHANGED <<svars, wvars, fn_exit, delivering, started, ended, delivered, ranBy,
                 tick>>

\* A WorkerThread.__init__ without line 56: the lock starts out unlocked.
SpawnUnlocked(j) ==
  /\ cpc[j] = "spawn"
  /\ LET w == Spawned + 1 IN
       /\ wpc' = [wpc EXCEPT ![w] = "acquire"]
       /\ job' = [job EXCEPT ![w] = None]
       /\ worker_lock' = [worker_lock EXCEPT ![w] = FALSE]
       /\ worker' = [worker EXCEPT ![j] = w]
  /\ cpc' = [cpc EXCEPT ![j] = "set_job"]
  /\ UNCHANGED <<svars, idle_workers, fn_deliver, result, caller, hvars>>

\* A WorkerThread(self) that starts two threads.
SpawnExtra(j) ==
  /\ cpc[j] = "spawn"
  /\ LET w == Spawned + 1 IN
       /\ wpc' = [v \in Workers |-> IF v \in {w, w + 1} THEN "acquire" ELSE wpc[v]]
       /\ job' = [job EXCEPT ![w] = None]
       /\ worker_lock' = [v \in Workers |-> IF v \in {w, w + 1} THEN TRUE ELSE worker_lock[v]]
       /\ worker' = [worker EXCEPT ![j] = w]
  /\ cpc' = [cpc EXCEPT ![j] = "set_job"]
  /\ UNCHANGED <<svars, idle_workers, fn_deliver, result, caller, hvars>>

\* A WorkerThread.__init__ that also inserts the new worker into the dict.
SpawnRegistered(j) ==
  /\ cpc[j] = "spawn"
  /\ LET w == Spawned + 1 IN
       /\ wpc' = [wpc EXCEPT ![w] = "acquire"]
       /\ job' = [job EXCEPT ![w] = None]
       /\ worker_lock' = [worker_lock EXCEPT ![w] = TRUE]
       /\ worker' = [worker EXCEPT ![j] = w]
       /\ idle_workers' = SetItem(idle_workers, w)
  /\ cpc' = [cpc EXCEPT ![j] = "set_job"]
  /\ UNCHANGED <<svars, fn_deliver, result, caller, hvars>>

\* Lines 109 and 46-59: WorkerThread(self): _job = None, the lock is created
\* and acquired, the thread is started and begins _work.
Spawn(j) ==
  /\ cpc[j] = "spawn"
  /\ LET w == Spawned + 1 IN
       /\ wpc' = [wpc EXCEPT ![w] = "acquire"]
       /\ job' = [job EXCEPT ![w] = None]
       /\ worker_lock' = [worker_lock EXCEPT ![w] = TRUE]
       /\ worker' = [worker EXCEPT ![j] = w]
  /\ cpc' = [cpc EXCEPT ![j] = "set_job"]
  /\ UNCHANGED <<svars, idle_workers, fn_deliver, result, caller, hvars>>

\* Line 59: thread.start() raises RuntimeError (no thread can be created),
\* which start_thread_soon lets through to its caller.
SpawnFails(j) ==
  /\ cpc[j] = "spawn"
  /\ cpc' = [cpc EXCEPT ![j] = "raised"]
  /\ caller' = [caller EXCEPT ![j] = External]
  /\ UNCHANGED <<svars, idle_workers, wvars, worker, hvars>>

\* A start_thread_soon without line 110: it releases the lock of a worker whose
\* slot it did not write.
SetJobSkipped(j) ==
  /\ cpc[j] = "set_job"
  /\ cpc' = [cpc EXCEPT ![j] = "release"]
  /\ UNCHANGED <<svars, idle_workers, wpc, job, worker_lock, fn_deliver, result, worker,
                 caller, hvars>>

\* Line 110: worker._job = (fn, deliver).
SetJob(j) ==
  /\ cpc[j] = "set_job"
  /\ job' = [job EXCEPT ![worker[j]] = j]
  /\ cpc' = [cpc EXCEPT ![j] = "release"]
  /\ UNCHANGED <<svars, idle_workers, wpc, worker_lock, fn_deliver, result, worker,
                 caller, hvars>>

\* A start_thread_soon without line 111: it returns without the release.
ReleaseSkipped(j) ==
  /\ cpc[j] = "release"
  /\ cpc' = [cpc EXCEPT ![j] = "returned"]
  /\ worker' = [worker EXCEPT ![j] = None]
  /\ caller' = [caller EXCEPT ![j] = External]
  /\ UNCHANGED <<svars, idle_workers, wpc, job, worker_lock, fn_deliver, result, hvars>>

\* Line 111: worker._worker_lock.release(); releasing an unlocked lock raises
\* RuntimeError to the caller. Either way the call ends, and its frame with it.
Release(j) ==
  /\ cpc[j] = "release"
  /\ IF worker_lock[worker[j]]
       THEN /\ worker_lock' = [worker_lock EXCEPT ![worker[j]] = FALSE]
            /\ cpc' = [cpc EXCEPT ![j] = "returned"]
       ELSE /\ cpc' = [cpc EXCEPT ![j] = "release_error"]
            /\ UNCHANGED worker_lock
  /\ worker' = [worker EXCEPT ![j] = None]
  /\ caller' = [caller EXCEPT ![j] = External]
  /\ UNCHANGED <<svars, idle_workers, wpc, job, fn_deliver, result, hvars>>

----------------------------------------------------------------------------
WorkerStep(w) ==
  \/ Acquire(w)
  \/ Timeout(w)
  \/ DelSelf(w)
  \/ ReadJob(w)
  \/ CallFn(w)
  \/ FnReturns(w)
  \/ FnRaises(w)
  \/ Register(w)
  \/ CallDeliver(w)
  \/ DeliverReturns(w)
  \/ DeliverRaises(w)
  \/ PrintException(w)

CallStep(j) ==
  \/ Spawn(j)
  \/ SpawnFails(j)
  \/ SetJob(j)
  \/ Release(j)

Next ==
  \/ \E t \in {External} \cup Workers : PopItem(t, MaxJobs)
  \/ \E w \in Workers : WorkerStep(w)
  \/ \E j \in Jobs : CallStep(j)

Spec == Init /\ [][Next]_vars

----------------------------------------------------------------------------
\* The fair specification. Every thread that can take a step eventually takes
\* one: a worker thread in _work/_handle_job (a timed wait ends, by the lock
\* or by the timeout; a deliver ends, as its contract demands), a caller inside
\* start_thread_soon. Nothing makes a fn end: it may block forever.

WorkerFairStep(w) ==
  \/ Acquire(w)
  \/ Timeout(w)
  \/ DelSelf(w)
  \/ ReadJob(w)
  \/ CallFn(w)
  \/ Register(w)
  \/ CallDeliver(w)
  \/ DeliverReturns(w)
  \/ DeliverRaises(w)
  \/ PrintException(w)

LiveNext ==
  \/ \E t \in {External} \cup Workers : PopItem(t, MaxLiveJobs)
  \/ \E w \in Workers : WorkerStep(w)
  \/ \E j \in Jobs : CallStep(j)

\* The jobs, and the workers, of the fair specification.
LiveJobs == 1..MaxLiveJobs

Fairness ==
  /\ \A w \in LiveJobs : WF_vars(WorkerFairStep(w))
  /\ \A j \in LiveJobs : WF_vars(CallStep(j))

LiveSpec == Init /\ [][LiveNext]_vars /\ Fairness

----------------------------------------------------------------------------
\* A call that got a worker or is about to create one.
Accepted(j) == cpc[j] \in {"spawn", "set_job", "release", "returned"}

\* From some point on, every fn that has ended has had its deliver called.
\* (ended and delivered only grow, so this says of each job that once its fn
\* has ended its deliver is eventually called.)
EndedIsDelivered == <>[](\A j \in LiveJobs : ended[j] >= 1 => delivered[j] >= 1)

\* C1 (no job is lost): under fair scheduling, every start_thread_soon call
\* that does not raise for want of a thread eventually has its fn called, and
\* a fn that has ended eventually has its deliver called, whether or not the
\* fn of any other job ever ends.
C1_NoJobLost ==
  /\ \A j \in LiveJobs : Accepted(j) ~> (started[j] >= 1 \/ cpc[j] = "raised")
  /\ EndedIsDelivered

\* Job 2 went all the way through its deliver while the fn of job 1, called
\* earlier, has not ended.
C1_Witness ==
  /\ started[1] = 1 /\ ended[1] = 0
  /\ delivered[2] = 1
  /\ \A w \in Workers : fn_deliver[w] # 2

----------------------------------------------------------------------------
\* C2 (exactly once): the fn of a job is called at most once, its deliver is
\* called at most once, and its deliver is called only after its fn has ended.
C2_ExactlyOnce ==
  \A j \in Jobs :
    /\ started[j] <= 1
    /\ delivered[j] <= 1
    /\ ended[j] <= started[j]
    /\ delivered[j] <= ended[j]

\* All the jobs went through fn and deliver, two of them on the same worker.
C2_Witness ==
  /\ \A j \in Jobs : started[j] = 1 /\ delivered[j] = 1
  /\ Spawned < MaxJobs

----------------------------------------------------------------------------
\* The calls that hold a worker they have not released yet.
Holding == {j \in Jobs : cpc[j] \in {"set_job", "release"}}

\* C3 (mutual exclusion): no two start_thread_soon calls hold the same worker;
\* a worker is removed from the dict at most once per insertion, by one pop or
\* by its own del; a worker that a call holds is not inside the fn of a job, and
\* no worker is inside two jobs at once.
C3_MutualExclusion ==
  /\ \A j, k \in Holding : j # k => worker[j] # worker[k]
  /\ \A w \in Workers : removals[w] <= 1
  /\ \A j \in Holding :
       wpc[worker[j]] \in {"acquire", "del", "call_deliver", "in_deliver", "except"}
  /\ \A j, k \in Jobs : (j # k /\ ranBy[j] # None) => ranBy[j] # ranBy[k]

\* Two calls race for the one idle worker 1: call 2 popped it, and call 3, made
\* before call 2 released it, found the dict empty.
C3_Witness ==
  /\ cpc[2] \in {"set_job", "release"} /\ worker[2] = 1 /\ removals[1] = 1
  /\ cpc[3] \in {"spawn", "set_job", "release"} /\ worker[3] # 1

----------------------------------------------------------------------------
\* A worker whose thread is running (_work has not returned or died).
Alive(w) == wpc[w] \notin {"unborn", "exited", "crashed"}

\* C4 (race safety at the timeout boundary): a worker that a call popped, or
\* that holds a job in its slot, is alive, whether its acquire timed out before
\* the pop, between the pop and the release, or not at all; and under fair
\* scheduling the fn of that job is called, and its deliver once the fn ended
\* (from some point on, every job whose call got a worker has had its fn
\* called, and every fn that ended has had its deliver called).
C4_TimeoutRace ==
  /\ [](\A j \in Holding : Alive(worker[j]))
  /\ [](\A w \in Workers : job[w] # None => Alive(w))
  /\ <>[](\A j \in LiveJobs :
            /\ cpc[j] \in {"set_job", "release", "returned"} => started[j] >= 1
            /\ ended[j] >= 1 => delivered[j] >= 1)

\* Call 2 popped worker 1 and wrote its job, and has not released the lock;
\* meanwhile the acquire of worker 1 timed out and it is about to try the del.
C4_Witness ==
  /\ cpc[2] = "release" /\ worker[2] = 1 /\ job[1] = 2
  /\ removals[1] = 1
  /\ wpc[1] = "del"

----------------------------------------------------------------------------
\* Worker w calls deliver in this step.
DeliverInvoked(w) == wpc[w] = "call_deliver" /\ wpc'[w] = "in_deliver"

\* Worker w, inside a deliver, calls start_thread_soon for job j in this step.
CalledFromDeliver(w, j) == cpc[j] = "new" /\ cpc'[j] # "new" /\ caller'[j] = w

\* C5 as claimed (register before deliver): when a worker calls deliver it is
\* in the dict or was popped since it inserted itself; and a start_thread_soon
\* call made from inside that deliver while the worker is still in the dict
\* takes that same worker and spawns no thread.
C5_Original ==
  [][\A w \in Workers :
       /\ DeliverInvoked(w) => (InDict(idle_workers, w) \/ removals[w] = 1)
       /\ \A j \in Jobs :
            (CalledFromDeliver(w, j) /\ InDict(idle_workers, w))
              => (cpc'[j] = "set_job" /\ worker'[j] = w)]_vars

\* C5 as amended: when a worker calls deliver it is in the dict or was popped
\* since it inserted itself; and a start_thread_soon call made from inside
\* that deliver while the worker is still in the dict spawns no thread: it
\* takes that same worker, or a worker that inserted itself later than it.
C5_RegisterBeforeDeliver ==
  [][\A w \in Workers :
       /\ DeliverInvoked(w) => (InDict(idle_workers, w) \/ removals[w] = 1)
       /\ \A j \in Jobs :
            (CalledFromDeliver(w, j) /\ InDict(idle_workers, w))
              => /\ cpc'[j] = "set_job"
                 /\ Spawned' = Spawned
                 /\ \/ worker'[j] = w
                    \/ stamp[worker'[j]] > stamp[w]]_vars

\* Worker 1, inside the deliver of job 1, called start_thread_soon for job 2
\* and popped itself.
C5_Witness ==
  /\ wpc[1] = "in_deliver" /\ delivering[1].deliver = 1
  /\ caller[2] = 1 /\ cpc[2] = "set_job" /\ worker[2] = 1
  /\ Spawned = 1

----------------------------------------------------------------------------
\* C6 (LIFO reuse): as long as every call was made after the deliver of the
\* job before it was called and no acquire timed out, one worker thread at most
\* was spawned, and every call and every job is on it.
C6_LifoReuse ==
  sequential =>
    /\ Spawned <= 1
    /\ \A j \in Holding : worker[j] = 1
    /\ \A j \in Jobs : ranBy[j] \in {None, 1}
    /\ \A j \in Jobs : delivered[j] >= 1 => Spawned = 1

\* All the jobs were called one after the other and delivered by one worker.
C6_Witness ==
  /\ sequential
  /\ \A j \in Jobs : delivered[j] = 1
  /\ Spawned = 1

----------------------------------------------------------------------------
\* No start_thread_soon call is running, no job is in a slot, and no worker
\* is inside _handle_job: every fn and every deliver has ended.
Quiet ==
  /\ \A j \in Jobs : cpc[j] \in {"new", "returned", "raised"}
  /\ \A w \in Workers : wpc[w] \in {"unborn", "acquire", "del", "exited"}
  /\ \A w \in Workers : job[w] = None /\ (Alive(w) => worker_lock[w])

\* Every worker thread that was spawned has ended and the dict is empty.
AllGone ==
  /\ idle_workers = <<>>
  /\ \A w \in Workers : wpc[w] \in {"unborn", "exited"}

\* C7 (idle exit): under fair scheduling a worker that is in the dict leaves
\* it, by a pop or by exiting after its own del; and once no call, fn or
\* deliver is running, every worker thread ends and the dict becomes empty,
\* unless a further call is made, which is all that ends the quiet.
C7_IdleExit ==
  /\ \A w \in LiveJobs :
       InDict(idle_workers, w)
         ~> (wpc[w] = "exited" \/ (~InDict(idle_workers, w) /\ removals[w] = 1))
  /\ Quiet ~> (AllGone \/ ~Quiet)
  /\ [][(Quiet /\ ~Quiet') => Submitted' = Submitted + 1]_vars

\* Every call was made and every job delivered, and the workers that ran them
\* have all timed out, deleted themselves and exited.
C7_Witness ==
  /\ AllGone
  /\ Submitted = MaxLiveJobs
  /\ \A j \in LiveJobs : delivered[j] = 1
  /\ \E w \in Workers : wpc[w] = "exited"

----------------------------------------------------------------------------
\* C8 (delivery-failure isolation): a deliver that raises ends no thread and
\* changes nothing a caller sees: the worker goes through the except clause
\* back to its wait, with the dict, every slot, every lock and every call left
\* as they were; while in the except clause it is in the dict unless it was
\* popped; and when a job was assigned to it meanwhile, it goes on to take the
\* job from its slot and call its fn.
C8_DeliveryFailureIsolation ==
  /\ [][\A w \in Workers :
          /\ wpc[w] = "in_deliver" => wpc'[w] \in {"in_deliver", "except", "acquire"}
          /\ wpc[w] = "except" => wpc'[w] \in {"except", "acquire"}
          /\ (wpc[w] \in {"in_deliver", "except"} /\ wpc'[w] # wpc[w])
               => UNCHANGED <<idle_workers, job, worker_lock, cpc>>]_vars
  /\ [](\A w \in Workers :
          wpc[w] = "except" => (InDict(idle_workers, w) \/ removals[w] = 1))
  /\ \A w \in LiveJobs :
       (wpc[w] = "except" /\ job[w] # None)
         ~> (wpc[w] = "capture" /\ job[w] = None)

\* The deliver of job 1 raised on worker 1, which was popped and given job 2
\* before its except clause finished.
C8_Witness ==
  /\ wpc[1] = "except" /\ fn_deliver[1] = 1
  /\ job[1] = 2 /\ ~worker_lock[1]

----------------------------------------------------------------------------
\* What outcome.capture makes of the way the fn called by w ended.
Expected(w) ==
  IF fn_exit[w] = "returned" THEN Value(fn_deliver[w]) ELSE Error(fn_deliver[w])

\* C9 (result mapping): a deliver is called by the worker thread that called
\* the fn of the same job, after that fn ended, with the outcome of that fn:
\* Value if it returned, Error if it raised; and a worker whose fn ended
\* either way goes on to insert itself and call deliver.
C9_ResultMapping ==
  \A w \in Workers :
    /\ fn_exit[w] # "none" =>
         /\ wpc[w] \in {"register", "call_deliver", "in_deliver", "except"}
         /\ result[w] = Expected(w)
    /\ delivering[w] # NoCall =>
         /\ fn_exit[w] # "none"
         /\ delivering[w].deliver = fn_deliver[w]
         /\ ranBy[delivering[w].deliver] = w
         /\ ended[delivering[w].deliver] = 1
         /\ delivering[w].arg = Expected(w)

\* The fn of job 1 raised; worker 1 is inside the deliver of job 1, called with
\* Error, and was already popped and given job 2.
C9_Witness ==
  /\ wpc[1] = "in_deliver" /\ fn_exit[1] = "raised"
  /\ delivering[1] = [deliver |-> 1, arg |-> Error(1)]
  /\ job[1] = 2

----------------------------------------------------------------------------
\* C10 (LIFO selection): a start_thread_soon call that finds the dict not
\* empty takes a worker from it, and no worker in the dict at that moment was
\* inserted later than the one it takes.
C10_LifoSelection ==
  [][\A j \in Jobs :
       (cpc[j] = "new" /\ cpc'[j] # "new" /\ idle_workers # <<>>)
         => /\ cpc'[j] = "set_job"
            /\ InDict(idle_workers, worker'[j])
            /\ \A i \in 1..Len(idle_workers) :
                 stamp[idle_workers[i]] <= stamp[worker'[j]]]_vars

\* Worker 2 made the first insertion and worker 1 the second and last one;
\* call 3 then took worker 1 and left worker 2 in the dict.
C10_Witness ==
  /\ tick = 2 /\ stamp[2] = 1 /\ idle_workers = <<2>>
  /\ cpc[3] = "set_job" /\ worker[3] = 1

----------------------------------------------------------------------------
\* The three states of a worker. The calls that hold worker w:
HeldBy(w) == {j \in Holding : worker[j] = w}

\* idle-registered: in the dict, lock locked (slot empty).
IdleRegistered(w) ==
  InDict(idle_workers, w) /\ worker_lock[w] /\ job[w] = None

\* assigned, as claimed: out of the dict, slot populated (the lock released or
\* about to be).
AssignedPopulated(w) == ~InDict(idle_workers, w) /\ job[w] # None

\* assigned: out of the dict and either held by a call that has not written
\* the slot yet (lines 107-110) or with the slot populated.
Assigned(w) ==
  ~InDict(idle_workers, w) /\ (job[w] # None \/ HeldBy(w) # {})

\* executing: the slot consumed, out of the dict, no call holds it: calling fn
\* or about to re-insert itself (lines 66-71).
Executing(w) ==
  /\ ~InDict(idle_workers, w) /\ job[w] = None /\ HeldBy(w) = {}
  /\ wpc[w] \in {"capture", "register"}

\* How many of the three states, with assigned as claimed, worker w is in.
StatesClaimed(w) ==
  (IF IdleRegistered(w) THEN 1 ELSE 0) + (IF AssignedPopulated(w) THEN 1 ELSE 0)
    + (IF Executing(w) THEN 1 ELSE 0)

\* How many of the three states worker w is in.
StatesOf(w) ==
  (IF IdleRegistered(w) THEN 1 ELSE 0) + (IF Assigned(w) THEN 1 ELSE 0)
    + (IF Executing(w) THEN 1 ELSE 0)

\* C11 as claimed (worker state invariant): every live worker is in exactly one
\* of idle-registered, assigned (slot populated) and executing.
C11_Original == \A w \in Workers : Alive(w) => StatesClaimed(w) = 1

\* C11 as amended: every live worker is in exactly one of idle-registered,
\* assigned and executing, where assigned begins when a call pops or spawns
\* the worker, before the job is written into its slot.
C11_WorkerStates == \A w \in Workers : Alive(w) => StatesOf(w) = 1

\* Call 2 popped worker 1, which is still inside the deliver of job 1, and has
\* not written the job into its slot yet.
C11_Witness ==
  /\ cpc[2] = "set_job" /\ worker[2] = 1
  /\ job[1] = None /\ ~InDict(idle_workers, 1)
  /\ wpc[1] = "in_deliver"

----------------------------------------------------------------------------
\* The calls that found the dict empty and have not created their worker yet.
AboutToSpawn == {j \in Jobs : cpc[j] = "spawn"}

\* C12 (thread-count bound): the number of workers spawned so far, plus the
\* calls that are about to spawn one, is at most the number of
\* start_thread_soon calls made so far; so the workers that hold or run a job
\* are no more than the calls made.
C12_ThreadCountBound ==
  /\ Spawned + Cardinality(AboutToSpawn) <= Submitted
  /\ Cardinality({w \in Workers : Assigned(w) \/ Executing(w)}) <= Submitted

\* Two calls made at the same time each spawned a worker, and both workers are
\* inside the fn of their job.
C12_Witness ==
  /\ Submitted = 2 /\ Spawned = 2
  /\ wpc[1] = "capture" /\ wpc[2] = "capture"

----------------------------------------------------------------------------
\* Sequencer.__call__, the block of task t --------------------------------------

\* The variables of the thread cache, which no task of the Sequencer touches.
cachevars == <<idle_workers, wvars, cvars, hvars>>

\* self._sequence_points[p]: a defaultdict makes the Event of a missing key.
GetPoint(points, p) ==
  IF points[p] = "absent" THEN [points EXCEPT ![p] = "unset"] ELSE points

\* Event.set() on the Event of key p, made first when the key is missing.
SetPoint(points, p) == [points EXCEPT ![p] = "set"]

\* Lines 73-74: every Event the dict holds is set; a missing key stays missing.
SetAllPoints(points) ==
  [p \in Points |-> IF points[p] = "absent" THEN "absent" ELSE "set"]

\* Lines 63-70 (and 79-80 for position 0): task t calls seq(p) and enters the
\* block. A claimed position and a broken sequence raise RuntimeError; otherwise
\* the position is claimed and the task waits for the Event of p, or, at
\* position 0, goes straight into the body.
Enter(t, p) ==
  /\ spc[t] = "new"
  /\ position' = [position EXCEPT ![t] = p]
  /\ IF p \in claimed
       THEN /\ spc' = [spc EXCEPT ![t] = "reuse_error"]
            /\ UNCHANGED <<sequence_points, claimed>>
       ELSE IF broken
         THEN /\ spc' = [spc EXCEPT ![t] = "broken_error"]
              /\ UNCHANGED <<sequence_points, claimed>>
         ELSE /\ claimed' = claimed \cup {p}
              /\ IF p # 0
                   THEN /\ sequence_points' = GetPoint(sequence_points, p)
                        /\ spc' = [spc EXCEPT ![t] = "waiting"]
                   ELSE /\ spc' = [spc EXCEPT ![t] = "body"]
                        /\ UNCHANGED sequence_points
  /\ UNCHANGED <<broken, cachevars>>

\* A __call__ without lines 77-78: a block whose wait returns runs its body.
WaitReturnsUnchecked(t) ==
  /\ spc[t] = "waiting"
  /\ sequence_points[position[t]] = "set"
  /\ spc' = [spc EXCEPT ![t] = "body"]
  /\ UNCHANGED <<sequence_points, claimed, broken, position, cachevars>>

\* Lines 70 and 76-80: the Event is set and wait() returns; a broken sequence
\* raises RuntimeError, otherwise the body starts.
WaitReturns(t) ==
  /\ spc[t] = "waiting"
  /\ sequence_points[position[t]] = "set"
  /\ spc' = [spc EXCEPT ![t] = IF broken THEN "woke_broken_error" ELSE "body"]
  /\ UNCHANGED <<sequence_points, claimed, broken, position, cachevars>>

\* Lines 71-75: wait() raises Cancelled (it is a checkpoint whether or not the
\* Event is set): the sequence is broken, every Event is set, RuntimeError.
WaitCancelled(t) ==
  /\ spc[t] = "waiting"
  /\ broken' = TRUE
  /\ sequence_points' = SetAllPoints(sequence_points)
  /\ spc' = [spc EXCEPT ![t] = "cancelled_error"]
  /\ UNCHANGED <<claimed, position, cachevars>>

\* Lines 80-82: the body ends, by returning or by raising, and the finally
\* clause sets the Event of the next position.
BodyEnds(t) ==
  /\ spc[t] = "body"
  /\ sequence_points' = SetPoint(sequence_points, position[t] + 1)
  /\ spc' = [spc EXCEPT ![t] = "exited"]
  /\ UNCHANGED <<claimed, broken, position, cachevars>>

SeqNext ==
  \/ \E t \in Tasks, p \in Positions : Enter(t, p)
  \/ \E t \in Tasks : WaitReturns(t)
  \/ \E t \in Tasks : WaitCancelled(t)
  \/ \E t \in Tasks : BodyEnds(t)

SeqSpec == Init /\ [][SeqNext]_vars

----------------------------------------------------------------------------
\* The body of the block at position n has started / has finished.
BodyStarted(n) == \E t \in Tasks : position[t] = n /\ spc[t] \in {"body", "exited"}
BodyFinished(n) == \E t \in Tasks : position[t] = n /\ spc[t] = "exited"

\* The ways a block ends with RuntimeError without having run its body.
SeqErrors == {"reuse_error", "broken_error", "woke_broken_error", "cancelled_error"}

\* C13 (Sequencer ordering): in whatever order the tasks enter their blocks,
\* the body of the block at position N >= 1 has started only if the body of
\* the block at position N-1 has finished, and no two blocks of a position run
\* a body; a block at position 0 that enters an unbroken sequence starts its
\* body at once; and once the sequence is broken, every waiting block has its
\* Event set, and a block that enters or wakes up raises RuntimeError and
\* runs no body.
C13_SequencerOrdering ==
  /\ [](\A n \in 1..MaxPosition : BodyStarted(n) => BodyFinished(n - 1))
  /\ [](\A t, u \in Tasks :
          (t # u /\ spc[t] \in {"body", "exited"} /\ spc[u] \in {"body", "exited"})
            => position[t] # position[u])
  /\ [][\A t \in Tasks :
          (spc[t] = "new" /\ spc'[t] # "new" /\ position'[t] = 0
             /\ ~broken /\ 0 \notin claimed)
            => spc'[t] = "body"]_vars
  /\ [](broken => \A t \in Tasks :
          spc[t] = "waiting" => sequence_points[position[t]] = "set")
  /\ [][\A t \in Tasks :
          (broken /\ spc'[t] # spc[t]) => spc'[t] \in SeqErrors \cup {"exited"}]_vars

\* The block at position 0 has finished and the block at position 1, which was
\* entered before it, is in its body; the wait of the last position was
\* cancelled, and a block in between woke up to the broken sequence and raised.
C13_Witness ==
  /\ BodyFinished(0)
  /\ \E t \in Tasks : position[t] = 1 /\ spc[t] = "body"
  /\ \E t \in Tasks : position[t] = 3 /\ spc[t] = "cancelled_error"
  /\ \E t \in Tasks : position[t] = 2 /\ spc[t] = "woke_broken_error"

----------------------------------------------------------------------------
\* A worker whose thread has ended.
Terminated(w) == wpc[w] \in {"exited", "crashed"}

\* C14 (safe exit): a worker thread ends only by the step that follows a
\* timed-out wait and deletes it from the dict, with its slot empty, its lock
\* locked and no call holding it, never from inside _handle_job; and a worker
\* whose thread has ended is not in the dict, is held by no call and has an
\* empty slot, and nothing about it changes any more.
C14_SafeExit ==
  /\ [][\A w \in Workers :
          (Terminated(w)' /\ ~Terminated(w)) =>
            /\ wpc[w] = "del" /\ wpc'[w] = "exited"
            /\ InDict(idle_workers, w) /\ ~InDict(idle_workers', w)
            /\ job[w] = None /\ worker_lock[w] /\ HeldBy(w) = {}
            /\ fn_deliver[w] = None]_vars
  /\ [](\A w \in Workers :
          Terminated(w) =>
            /\ ~InDict(idle_workers, w)
            /\ HeldBy(w) = {}
            /\ job[w] = None)
  /\ [][\A w \in Workers :
          Terminated(w) =>
            /\ job'[w] = job[w] /\ worker_lock'[w] = worker_lock[w]
            /\ wpc'[w] = wpc[w]]_vars

\* Worker 1 ran job 1, timed out, deleted itself and ended; call 2, made
\* afterwards, spawned worker 2, which is inside the fn of job 2.
C14_Witness ==
  /\ wpc[1] = "exited" /\ delivered[1] = 1
  /\ wpc[2] = "capture" /\ fn_deliver[2] = 2

----------------------------------------------------------------------------
\* The wait of worker w timed out and its del is about to fail, or just did:
\* it is not in the dict (only the worker itself inserts it).
RemovalFails(w) == wpc[w] = "del" /\ ~InDict(idle_workers, w)

\* An assigner has worker w: a call holds it, or has written its slot and
\* released its lock.
BeingAssigned(w) == HeldBy(w) # {} \/ (job[w] # None /\ ~worker_lock[w])

----------------------------------------------------------------------------
\* C16 (slot before signal): a call that is about to release the lock of a
\* worker has written its job into the slot of that worker; a lock that is
\* unlocked belongs to a worker whose slot is populated; a worker whose wait
\* succeeded finds its slot populated and never dies unpacking an empty slot;
\* and a worker that is inside fn has emptied its slot.
C16_SlotBeforeSignal ==
  /\ \A j \in Jobs : cpc[j] = "release" => job[worker[j]] = j
  /\ \A w \in Workers :
       /\ (wpc[w] # "unborn" /\ ~worker_lock[w]) => job[w] # None
       /\ wpc[w] \in {"handle_job", "clear_job"} => job[w] # None
       /\ wpc[w] # "crashed"
       /\ wpc[w] \in {"capture", "register"} => job[w] = None

\* Call 2 wrote job 2 into the slot of worker 1 and released its lock, and the
\* wait of worker 1 succeeded: it is about to unpack the slot.
C16_Witness ==
  /\ cpc[2] = "returned"
  /\ wpc[1] = "handle_job" /\ job[1] = 2 /\ worker_lock[1]

----------------------------------------------------------------------------
\* The call for job j does its pop in this step.
Pops(j) == cpc[j] = "new" /\ cpc'[j] # "new"

\* C17 (spawn only when empty): the pop of a call creates no worker, and sends
\* the call on to create one if and only if the dict is empty at that moment;
\* such a call then creates exactly one worker or raises for want of a thread;
\* workers are created in no other way; and a worker that a call holds and has
\* not written to is out of the dict with its lock locked and its slot empty.
C17_SpawnOnlyWhenEmpty ==
  /\ [][\A j \in Jobs :
          Pops(j) => /\ (cpc'[j] = "spawn") <=> (idle_workers = <<>>)
                     /\ cpc'[j] \in {"spawn", "set_job"}
                     /\ Spawned' = Spawned]_vars
  /\ [][\A j \in Jobs :
          (cpc[j] = "spawn" /\ cpc'[j] # "spawn") =>
            \/ /\ cpc'[j] = "set_job" /\ Spawned' = Spawned + 1
               /\ wpc[worker'[j]] = "unborn" /\ wpc'[worker'[j]] = "acquire"
            \/ cpc'[j] = "raised" /\ Spawned' = Spawned]_vars
  /\ [][Spawned' # Spawned =>
          \E j \in Jobs : cpc[j] = "spawn" /\ cpc'[j] = "set_job"]_vars
  /\ [](\A j \in Jobs :
          cpc[j] = "set_job" =>
            /\ ~InDict(idle_workers, worker[j])
            /\ worker_lock[worker[j]]
            /\ job[worker[j]] = None)

\* Worker 1 ran job 1, timed out and ended, leaving the dict empty; call 2
\* found it empty and spawned worker 2, to which it has not yet written.
C17_Witness ==
  /\ wpc[1] = "exited" /\ idle_workers = <<>>
  /\ cpc[2] = "set_job" /\ worker[2] = 2 /\ Spawned = 2
  /\ job[2] = None /\ worker_lock[2]

----------------------------------------------------------------------------
\* C18 (no error at the call site): a call that is about to release the lock
\* of a worker finds it locked, in every interleaving with the waits and the
\* timeouts of that worker; so no release raises, and a call ends by returning
\* or, when no thread could be created, by raising.
C18_NoErrorAtCallSite ==
  /\ \A j \in Holding : worker_lock[worker[j]]
  /\ \A j \in Jobs : cpc[j] # "release_error"
  /\ \A j \in Jobs : cpc[j] = "raised" => worker[j] = None

\* Every call returned, and all of them released the lock of the one worker.
C18_Witness ==
  /\ \A j \in Jobs : cpc[j] = "returned"
  /\ Spawned = 1
  /\ wpc[1] = "handle_job"

----------------------------------------------------------------------------
\* The jobs that were written to a slot and not yet consumed from it.
Pending == {j \in Jobs : cpc[j] \in {"release", "returned"} /\ started[j] = 0}

\* C19 (no queue, no clobbering): the slot of a worker is populated exactly
\* when a job was written to it and not consumed yet: every job written and
\* not consumed is in exactly one slot, every populated slot holds such a job,
\* and a call that is about to write a slot finds it empty.
C19_NoClobbering ==
  /\ \A j \in Pending : Cardinality({w \in Workers : job[w] = j}) = 1
  /\ \A w \in Workers : job[w] # None => job[w] \in Pending
  /\ \A j \in Jobs : cpc[j] = "set_job" => job[worker[j]] = None

\* Worker 1 is about to call the deliver of job 1; it was popped meanwhile and
\* its slot already holds job 2, whose call has returned.
C19_Witness ==
  /\ wpc[1] = "call_deliver" /\ fn_deliver[1] = 1
  /\ job[1] = 2 /\ cpc[2] = "returned" /\ started[2] = 0

----------------------------------------------------------------------------
\* C20 (registry invariant): every worker in the dict is alive, with its slot
\* empty and its lock locked, is held by no call, and is waiting, about to
\* delete itself, or still inside the rest of _handle_job (deliver and its
\* except clause); the dict holds no worker twice; and a worker that is about
\* to insert itself is not in the dict.
C20_RegistryInvariant ==
  /\ \A i \in 1..Len(idle_workers) :
       LET w == idle_workers[i] IN
         /\ Alive(w)
         /\ job[w] = None
         /\ worker_lock[w]
         /\ HeldBy(w) = {}
         /\ wpc[w] \in {"call_deliver", "in_deliver", "except", "acquire", "del"}
  /\ \A i, k \in 1..Len(idle_workers) : i # k => idle_workers[i] # idle_workers[k]
  /\ \A w \in Workers : wpc[w] = "register" => ~InDict(idle_workers, w)

\* Worker 2 is in the dict and waiting; worker 1 inserted itself after it and
\* is still inside its deliver.
C20_Witness ==
  /\ idle_workers = <<2, 1>>
  /\ wpc[2] = "acquire"
  /\ wpc[1] = "in_deliver"

====
